---- MODULE Spec2Model ----
(***************************************************************************)
(* A model of the retrieval core of llm-query-system:                      *)
(*   - EmbeddingService (core/embedding_service.py): the in-memory vector  *)
(*     index, its slot table document_chunks, and the two files it is      *)
(*     saved to and restored from;                                         *)
(*   - DocumentService (core/document_service.py): process_document and    *)
(*     delete_document, the only callers that mutate the index;            *)
(*   - DocumentParser.chunk_text (utils/document_parser.py);               *)
(*   - RerankingService (core/reranking_service.py): rerank_results;       *)
(*   - LLMService (core/llm_service.py): initialize and the two calls      *)
(*     process_query makes;                                                *)
(*   - QueryProcessor.process_query (core/query_processor.py).             *)
(* A vector is identified by the chunk whose text was embedded, a document *)
(* id (a uuid4 in the code) by the order in which it was issued.           *)
(***************************************************************************)
EXTENDS Integers, Sequences, FiniteSets, TLC

\* ---------------------------------------------------------------- bounds
MaxDocs == 2      \* process_document calls (uuids issued) in one behaviour
MaxChunks == 1    \* chunks of one document
MaxTopK == 1      \* largest explicit top_k passed to search
MaxQueries == 1   \* distinct query texts
MaxSteps == 4     \* handler calls, restarts and file losses in one behaviour
MaxSents == 2     \* sentences of a text given to chunk_text
MaxSentWords == 2 \* words of one sentence
MaxArg == 3       \* largest chunk_size and overlap argument given to chunk_text
MaxCands == 2     \* candidates given to rerank_results
MaxScore == 2     \* largest score of a candidate, in score units
MaxRerankK == 2   \* largest explicit top_k given to rerank_results
MaxQuerySteps == 3 \* handler calls and restarts in one behaviour of the query pipeline

\* ------------------------------------------------------ program constants
MAX_RETRIEVAL_RESULTS == 20
CHUNK_SIZE == 512
CHUNK_OVERLAP == 50
TOP_K_RERANK == 5

VARIABLES
  is_initialized,   \* EmbeddingService.is_initialized
  index,            \* EmbeddingService.index: the vectors, in FAISS id order (0-based id i is index[i+1])
  document_chunks,  \* EmbeddingService.document_chunks: slot id -> chunk metadata
  faiss_file,       \* <FAISS_INDEX_PATH>.faiss on disk
  meta_file,        \* <FAISS_INDEX_PATH>_metadata.json on disk
  documents,        \* table Document: document id -> processing_status ("absent": no row)
  db_chunks,        \* table DocumentChunk: committed rows, as <<document_id, chunk_index>>
  uuids,            \* number of document ids issued by uuid.uuid4() so far
  steps,            \* number of steps taken so far
  last_op,          \* the handler that ran last
  last_arg,         \* its argument: top_k of search, the id given to delete_document,
                    \* the number of chunks of the document given to process_document
  ret,              \* how it ended: "ok", "false" (returned False) or "raised"
  err,              \* the call whose exception reached the caller ("": none)
  results,          \* the list the last search returned
  last_doc,         \* the document_id given to search_by_document (0 otherwise)
  fetched,          \* the k the last search asked index.search for (0: no search)
  candidates,       \* the FAISS ids index.search gave back, best first
  removed,          \* history: documents remove_document has run for in this process
  assigned,         \* history: slot ids assigned by add_documents in this process, in order
  slots_saved,      \* history: slot ids written by a completed save_index
  slots_prev,       \* history: slots_saved as it was at the last restart
  text,             \* chunk_text's text: its sentences, each a list of words
  chunk_size,       \* chunk_text's chunk_size argument (0: None or 0)
  overlap,          \* chunk_text's overlap argument (0: None or 0)
  nlp,              \* whether DocumentParser.nlp is set (the spaCy model loaded)
  chunks,           \* the chunk list chunk_text returned
  chunk_ret,        \* "none" before the call, then "ok" or "raised"
  rerank_initialized, \* RerankingService.is_initialized
  model_type,       \* RerankingService.model_type ("unset": no such attribute yet)
  search_results,   \* rerank_results' search_results: a list of [similarity_score, score],
                    \* score being what the model gives for the candidate's text
  rerank_top_k,     \* rerank_results' top_k argument (0: None or 0)
  reranked,         \* the list the last rerank_results returned
  rerank_ret,       \* "none" before a call, then "ok" or "raised"
  llm_initialized,  \* LLMService.is_initialized
  pipeline,         \* whether LLMService.pipeline is set (FALSE: None)
  queries,          \* table Query: the number of committed rows
  stages,           \* the stages the last process_query completed, in order
  answer,           \* what its generate_answer returned
  fault,            \* what went wrong around it ("ok": nothing)
  up_pc,            \* where the process_document running on the event loop stands
  up_doc,           \* its document id (0: none runs)
  up_todo,          \* the chunk_index values add_documents' loop has still to store
  del_pc,           \* where the delete_document running on a worker thread stands
  del_doc,          \* its document_id argument
  del_pos,          \* the number of entries remove_document's loop has visited
  del_size,         \* len(document_chunks) when that loop began
  del_ret           \* what the last delete_document on the worker thread returned

svars == <<is_initialized, index, document_chunks, faiss_file, meta_file, documents,
           db_chunks, uuids, steps, last_op, last_arg, ret, err, results, last_doc,
           fetched, candidates, removed, assigned, slots_saved, slots_prev>>
cvars == <<text, chunk_size, overlap, nlp, chunks, chunk_ret>>
rvars == <<rerank_initialized, model_type, search_results, rerank_top_k, reranked,
           rerank_ret>>
qvars == <<llm_initialized, pipeline, queries, stages, answer, fault>>
tvars == <<up_pc, up_doc, up_todo, del_pc, del_doc, del_pos, del_size, del_ret>>
vars == <<svars, cvars, rvars, qvars, tvars>>

\* Document ids: 1, 2, ... in the order uuid4 issues them; 0 is an id a client
\* sends that no document ever had.
UnknownDoc == 0
DocIds == 0..MaxDocs

\* The empty dict {} / an index with no vectors.
Empty == << >>

Len0(f) == Cardinality(DOMAIN f)

Missing == [st |-> "missing", data |-> Empty]
Corrupt == [st |-> "corrupt", data |-> Empty]
File(d) == [st |-> "ok", data |-> d]

\* ------------------------------------------------------- EmbeddingService

\* The service's fields as one value, so that a handler can chain calls.
Service == [is_initialized |-> is_initialized, index |-> index,
            document_chunks |-> document_chunks]

\* The entry add_documents stores for one chunk; 'deleted' is absent until
\* remove_document sets it, and is read with .get('deleted', False).
ChunkInfo(doc, ci) ==
  [chunk_id |-> <<doc, ci>>, document_id |-> doc, chunk_index |-> ci, deleted |-> FALSE]

\* json.dump writes the int keys of document_chunks as strings.
DumpKeys(dc) ==
  LET strs == {ToString(k) : k \in DOMAIN dc}
  IN  [s \in strs |-> dc[CHOOSE k \in DOMAIN dc : ToString(k) = s]]

\* int(k): the inverse of str on the decimal numerals the model can hold.
ParseInt(s) == CHOOSE k \in 0..(MaxDocs * MaxChunks) : ToString(k) = s

\* A load that gives every entry back without its 'deleted' mark.
LoadKeysForgetsDeleted(js) ==
  LET ints == {ParseInt(s) : s \in DOMAIN js}
  IN  [k \in ints |-> [js[ToString(k)] EXCEPT !.deleted = FALSE]]

\* {int(k): v for k, v in json.load(f).items()}
LoadKeys(js) ==
  LET ints == {ParseInt(s) : s \in DOMAIN js}
  IN  [k \in ints |-> js[ToString(k)]]

\* A fall back that forgets to replace the index read_index had already loaded.
LoadFallbackKeepsIndex(s) == [s EXCEPT !.document_chunks = Empty]

\* _load_index, from the except clause on: the fall back to an empty index.
LoadFallback(s) == [s EXCEPT !.index = Empty, !.document_chunks = Empty]

\* _load_index. s.index is the fresh IndexFlatIP that initialize made.
LoadIndex(s, ff, mf) ==
  IF ff.st # "missing" /\ mf.st # "missing"
  THEN IF ff.st = "corrupt"
       THEN LoadFallback(s)
       ELSE LET s1 == [s EXCEPT !.index = ff.data]
            IN  IF mf.st = "corrupt"
                THEN LoadFallback(s1)
                ELSE [s1 EXCEPT !.document_chunks = LoadKeys(mf.data)]
  ELSE s

\* initialize: [s, raised]. The model is loaded before anything else is touched.
Initialize(s, ff, mf, modelLoads) ==
  IF s.is_initialized THEN [s |-> s, raised |-> FALSE]
  ELSE IF ~modelLoads THEN [s |-> s, raised |-> TRUE]
  ELSE [s |-> [LoadIndex([s EXCEPT !.index = Empty], ff, mf) EXCEPT !.is_initialized = TRUE],
        raised |-> FALSE]

\* A slot counter that counts only the entries not marked deleted.
NextSlotCountsLive(dc) == Cardinality({k \in DOMAIN dc : ~dc[k].deleted})

\* The key add_documents stores the next entry under.
NextSlot(dc) == Len0(dc)

\* add_documents, the loop over chunks: [dc, keys] after storing the chunks
\* with chunk_index cis[1], cis[2], ... under the slot ids in keys.
RECURSIVE StoreChunks(_, _, _, _)
StoreChunks(dc, doc, cis, keys) ==
  IF cis = << >> THEN [dc |-> dc, keys |-> keys]
  ELSE LET k == NextSlot(dc)
       IN  StoreChunks((k :> ChunkInfo(doc, Head(cis))) @@ dc, doc, Tail(cis),
                       Append(keys, k))

\* The chunk_index values of a chunk list of n chunks.
ChunkIndexes(n) == [i \in 1..n |-> i - 1]

\* add_documents: [s, raised, keys]. how: "ok", "model_load_fails" (initialize
\* raises), "encode_raises" (model.encode raises), "dim_mismatch" (index.add
\* rejects the vectors).
AddDocuments(s, ff, mf, doc, n, how) ==
  LET i == Initialize(s, ff, mf, how # "model_load_fails")
  IN  IF i.raised THEN [s |-> i.s, raised |-> TRUE, keys |-> << >>]
      ELSE LET st == StoreChunks(i.s.document_chunks, doc, ChunkIndexes(n), << >>)
               s1 == [i.s EXCEPT !.document_chunks = st.dc]
           IN  IF how \in {"encode_raises", "dim_mismatch"}
               THEN [s |-> s1, raised |-> TRUE, keys |-> st.keys]
               ELSE [s |-> [s1 EXCEPT !.index = i.s.index \o [j \in 1..n |-> <<doc, j - 1>>]],
                     raised |-> FALSE, keys |-> st.keys]

\* A removal that marks every entry of the table.
RemoveDocumentMarksAll(s, doc) ==
  [s EXCEPT !.document_chunks =
     [k \in DOMAIN s.document_chunks |-> [s.document_chunks[k] EXCEPT !.deleted = TRUE]]]

\* remove_document: marks, in memory, every entry of the document.
RemoveDocument(s, doc) ==
  [s EXCEPT !.document_chunks =
     [k \in DOMAIN s.document_chunks |->
        IF s.document_chunks[k].document_id = doc
        THEN [s.document_chunks[k] EXCEPT !.deleted = TRUE]
        ELSE s.document_chunks[k]]]

\* None, as get_chunk_by_id and get_document_info return it.
None == << >>

\* A lookup that takes the first entry of the table, whatever its id.
GetChunkByIdFirstEntry(dc, chunk_id) ==
  IF DOMAIN dc = {} THEN None
  ELSE dc[CHOOSE k \in DOMAIN dc : \A j \in DOMAIN dc : k <= j]

\* get_chunk_by_id: the first entry, in slot order, with the chunk_id; the
\* service is not initialized by the call and 'deleted' is not looked at.
GetChunkById(dc, chunk_id) ==
  LET found == {k \in DOMAIN dc : dc[k].chunk_id = chunk_id}
  IN  IF found = {} THEN None
      ELSE dc[CHOOSE k \in found : \A j \in found : k <= j]

\* save_index: the two files after the call. how: "ok"; "before" (raises before
\* anything is written); "faiss_partial" (write_index dies half way);
\* "meta_open" (the vectors are written, opening the metadata file fails);
\* "meta_partial" (the metadata file is truncated by open and json.dump dies).
SaveIndex(s, ff, mf, how) ==
  IF ~s.is_initialized \/ how = "before" THEN [faiss |-> ff, meta |-> mf]
  ELSE IF how = "faiss_partial" THEN [faiss |-> Corrupt, meta |-> mf]
  ELSE IF how = "meta_open" THEN [faiss |-> File(s.index), meta |-> mf]
  ELSE IF how = "meta_partial" THEN [faiss |-> File(s.index), meta |-> Corrupt]
  ELSE [faiss |-> File(s.index), meta |-> File(DumpKeys(s.document_chunks))]

SaveHows == {"ok", "before", "faiss_partial", "meta_open", "meta_partial"}

\* Whether save_index completed both writes.
SaveWrote(s, how) == s.is_initialized /\ how = "ok"

\* top_k or settings.MAX_RETRIEVAL_RESULTS
EffectiveTopK(top_k) == IF top_k = 0 THEN MAX_RETRIEVAL_RESULTS ELSE top_k

\* index.search: the FAISS ids of the min(k, ntotal) best vectors, best first
\* (the remaining places hold -1 and are dropped by the caller's idx >= 0).
\* The ranking a query induces is that of its embedding; query q ranks the
\* vectors starting from id (q-1) mod ntotal and going round.
FaissSearch(ix, q, k) ==
  LET n == Len(ix)
      m == IF k < n THEN k ELSE n
  IN  [i \in 1..m |-> (q - 1 + i - 1) % n]

\* Whether search keeps a hit of the index: idx >= 0 and idx < len(document_chunks).
Eligible(dc, idx) == idx >= 0 /\ idx < Len0(dc)

\* search: the chunk_info copies of the hits it keeps, best first.
RECURSIVE Hits(_, _)
Hits(dc, ids) ==
  IF ids = << >> THEN << >>
  ELSE IF Eligible(dc, Head(ids))
       THEN <<[slot |-> Head(ids), document_id |-> dc[Head(ids)].document_id,
               chunk_id |-> dc[Head(ids)].chunk_id, deleted |-> dc[Head(ids)].deleted]>>
            \o Hits(dc, Tail(ids))
       ELSE Hits(dc, Tail(ids))

SearchResults(s, q, top_k) == Hits(s.document_chunks, FaissSearch(s.index, q, EffectiveTopK(top_k)))

\* A filter that lets every result through.
FilterKeepsAll(rs, doc) == rs

\* [result for result in all_results if result['document_id'] == document_id]
FilterByDocument(rs, doc) == SelectSeq(rs, LAMBDA r : r.document_id = doc)

\* rs[:k]
Take(rs, k) == SubSeq(rs, 1, IF k < Len(rs) THEN k ELSE Len(rs))

\* search_by_document, after initialize: search(query, top_k * 2), the filter
\* and the cut to top_k or settings.MAX_RETRIEVAL_RESULTS.
SearchByDocumentResults(s, q, doc, top_k) ==
  Take(FilterByDocument(SearchResults(s, q, top_k * 2), doc), EffectiveTopK(top_k))

\* ------------------------------------------------------------- LLMService

Llm == [is_initialized |-> llm_initialized, pipeline |-> pipeline]

\* The answer of a call that produced none.
NoAnswer == [via |-> "none", decision |-> "", confidence |-> "", supporting_evidence |-> ""]

\* How loading the generative model goes: tokenizer and model load; the model
\* does not (the except clause leaves pipeline = None); the tokenizer does not.
LlmLoads == {"loads", "model_load_fails", "tokenizer_raises"}

\* LLMService.initialize: [l, raised]. AutoTokenizer.from_pretrained runs
\* outside the try.
LlmInitialize(l, load) ==
  IF l.is_initialized THEN [l |-> l, raised |-> FALSE]
  ELSE IF load = "tokenizer_raises" THEN [l |-> l, raised |-> TRUE]
  ELSE [l |-> [is_initialized |-> TRUE, pipeline |-> load = "loads"], raised |-> FALSE]

\* What the generative model does when the pipeline is called: it raises, its
\* output holds no {...}, holds one that json.loads rejects, holds a JSON
\* object with the keys asked for, or one that lacks some of them.
\* "no_pipeline": there is no pipeline to call.
GenHows == {"no_pipeline", "generation_raises", "no_json", "bad_json", "json",
            "json_missing_keys"}

\* Whether the try block hands the model's own JSON to the caller.
ModelAnswers(l, gen) == l.pipeline /\ gen \in {"json", "json_missing_keys"}

\* extract_structured_query: [l, ret, via]; via tells whose result is returned,
\* the model's JSON or _rule_based_extraction's.
ExtractStructuredQuery(l, load, gen) ==
  LET i == LlmInitialize(l, load)
  IN  IF i.raised THEN [l |-> i.l, ret |-> "raised", via |-> "none"]
      ELSE [l |-> i.l, ret |-> "ok",
            via |-> IF ModelAnswers(i.l, gen) THEN "model" ELSE "rule_based"]

\* _rule_based_answer_generation on the chunks given (their slot ids).
RuleBasedAnswerGeneration(relevant_chunks) ==
  IF relevant_chunks = << >>
  THEN [via |-> "rule_based", decision |-> "Unclear", confidence |-> "0.1",
        supporting_evidence |-> << >>]
  ELSE [via |-> "rule_based", decision |-> "keyword_match",
        confidence |-> "min(combined_score, 0.7)",
        supporting_evidence |-> <<relevant_chunks[1]>>]

\* generate_answer: [l, ret, answer].
GenerateAnswer(l, relevant_chunks, load, gen) ==
  LET i == LlmInitialize(l, load)
  IN  IF i.raised THEN [l |-> i.l, ret |-> "raised", answer |-> NoAnswer]
      ELSE [l |-> i.l, ret |-> "ok",
            answer |-> IF ModelAnswers(i.l, gen)
                       THEN [via |-> IF gen = "json" THEN "model" ELSE "model_missing_keys",
                             decision |-> "model", confidence |-> "model",
                             supporting_evidence |-> <<"model">>]
                       ELSE RuleBasedAnswerGeneration(relevant_chunks)]

\* -------------------------------------------------------- DocumentService

\* The fields of the service after a handler.
SetService(s) ==
  /\ is_initialized' = s.is_initialized
  /\ index' = s.index
  /\ document_chunks' = s.document_chunks

SetFiles(f) ==
  /\ faiss_file' = f.faiss
  /\ meta_file' = f.meta

\* A handler that runs no search leaves nothing to observe of one.
NoSearch ==
  /\ last_doc' = 0
  /\ fetched' = 0
  /\ candidates' = << >>

\* A handler other than process_query leaves nothing to observe of a query
\* or of a rerank_results call.
NoQuery ==
  /\ stages' = << >>
  /\ answer' = NoAnswer
  /\ fault' = "ok"
  /\ search_results' = << >>
  /\ rerank_top_k' = 0
  /\ reranked' = << >>
  /\ rerank_ret' = "none"

\* Every step counts towards MaxSteps.
Step ==
  /\ steps < MaxSteps
  /\ steps' = steps + 1

\* The DocumentChunk rows process_document adds for a document of n chunks.
ChunkRows(doc, n) == {<<doc, i>> : i \in 0..(n - 1)}

\* Where a process_document call fails, if it does.
ProcessOutcomes ==
  {"parse_raises", "model_load_fails", "encode_raises", "dim_mismatch", "clauses_raise"}
    \cup SaveHows

\* process_document on a document whose text yields n chunks.
\*   parse_raises: download_document / parse_document raises, before the row exists;
\*   model_load_fails, encode_raises, dim_mismatch: add_documents raises;
\*   clauses_raise: _extract_and_index_clauses raises before its commit (the
\*     tokenizer does not load in LLMService.initialize, or a later call raises);
\*   a member of SaveHows: how save_index ends ("ok": the call succeeds).
\* llmLoads: whether the generative model loads, should extract_key_clauses be
\* the first to initialize the LLMService.
\* The except clause commits the session, and with it the chunk rows added before.
ProcessDocument(n, outcome, llmLoads) ==
  LET doc == uuids + 1
      l == LlmInitialize(Llm, IF llmLoads THEN "loads" ELSE "model_load_fails")
      a == AddDocuments(Service, faiss_file, meta_file, doc, n,
                        IF outcome \in SaveHows \cup {"clauses_raise"} THEN "ok" ELSE outcome)
      saved == SaveIndex(a.s, faiss_file, meta_file, outcome)
  IN  /\ uuids < MaxDocs
      /\ outcome = "model_load_fails" => ~is_initialized
      /\ (llm_initialized \/ outcome \notin SaveHows) => llmLoads
      /\ Step
      /\ uuids' = doc
      /\ last_op' = "process_document"
      /\ last_arg' = n
      /\ results' = << >>
      /\ NoSearch
      /\ NoQuery
      /\ UNCHANGED <<removed, slots_prev, cvars, tvars, rerank_initialized, model_type, queries>>
      /\ IF outcome \in SaveHows
         THEN llm_initialized' = l.l.is_initialized /\ pipeline' = l.l.pipeline
         ELSE UNCHANGED <<llm_initialized, pipeline>>
      /\ IF outcome = "parse_raises"
         THEN /\ ret' = "raised"
              /\ err' = "parse_document"
              /\ UNCHANGED <<is_initialized, index, document_chunks, faiss_file, meta_file,
                             documents, db_chunks, assigned, slots_saved>>
         ELSE /\ SetService(a.s)
              /\ assigned' = assigned \o a.keys
              /\ db_chunks' = db_chunks \cup ChunkRows(doc, n)
              /\ IF a.raised \/ outcome = "clauses_raise"
                 THEN /\ documents' = [documents EXCEPT ![doc] = "failed"]
                      /\ ret' = "raised"
                      /\ err' = IF ~a.raised THEN "extract_key_clauses"
                                ELSE IF outcome = "model_load_fails" THEN "initialize"
                                ELSE "add_documents"
                      /\ UNCHANGED <<faiss_file, meta_file, slots_saved>>
                 ELSE /\ SetFiles(saved)
                      /\ slots_saved' = IF SaveWrote(a.s, outcome)
                                        THEN slots_saved \cup DOMAIN a.s.document_chunks
                                        ELSE slots_saved
                      /\ documents' = [documents EXCEPT
                                         ![doc] = IF outcome = "ok" THEN "completed" ELSE "failed"]
                      /\ ret' = IF outcome = "ok" THEN "ok" ELSE "raised"
                      /\ err' = IF outcome = "ok" THEN "" ELSE "save_index"

\* How a delete_document call goes: the commit raises, or save_index ends so.
DeleteOutcomes == {"commit_raises"} \cup SaveHows

\* delete_document(doc), for the unknown id and every id issued so far.
DeleteDocument(doc, outcome) ==
  LET s1 == RemoveDocument(Service, doc)
      saved == SaveIndex(s1, faiss_file, meta_file, outcome)
  IN  /\ doc <= uuids
      /\ (documents[doc] = "absent" \/ ~is_initialized) => outcome \in {"ok", "commit_raises"}
      /\ documents[doc] = "absent" => outcome = "ok"
      /\ Step
      /\ last_op' = "delete_document"
      /\ last_arg' = doc
      /\ err' = ""
      /\ results' = << >>
      /\ NoSearch
      /\ SetService(s1)
      /\ removed' = removed \cup {doc}
      /\ NoQuery
      /\ UNCHANGED <<uuids, assigned, slots_prev, cvars, tvars, rerank_initialized, model_type,
                     llm_initialized, pipeline, queries>>
      /\ IF documents[doc] = "absent" \/ outcome = "commit_raises"
         THEN /\ ret' = "false"
              /\ UNCHANGED <<faiss_file, meta_file, documents, db_chunks, slots_saved>>
         ELSE /\ documents' = [documents EXCEPT ![doc] = "absent"]
              /\ db_chunks' = {r \in db_chunks : r[1] # doc}
              /\ SetFiles(saved)
              /\ slots_saved' = IF SaveWrote(s1, outcome)
                                THEN slots_saved \cup DOMAIN s1.document_chunks
                                ELSE slots_saved
              /\ ret' = IF s1.is_initialized /\ outcome # "ok" THEN "false" ELSE "ok"

\* get_document_info(doc): "none" for None, "info" for a DocumentInfo. The
\* handler get_document turns None into HTTP 404.
GetDocumentInfo(doc) ==
  /\ Step
  /\ last_op' = "get_document_info"
  /\ last_arg' = doc
  /\ ret' = IF documents[doc] = "absent" THEN "none" ELSE "info"
  /\ err' = ""
  /\ results' = << >>
  /\ NoSearch
  /\ NoQuery
  /\ UNCHANGED <<is_initialized, index, document_chunks, faiss_file, meta_file, documents,
                 db_chunks, uuids, removed, assigned, slots_saved, slots_prev, cvars, tvars,
                 rerank_initialized, model_type, llm_initialized, pipeline, queries>>

\* embedding_service.get_chunk_by_id(f"{doc}_{ci}"); results holds the entry found.
GetChunkByIdCall(doc, ci) ==
  LET c == GetChunkById(document_chunks, <<doc, ci>>)
  IN  /\ Step
      /\ last_op' = "get_chunk_by_id"
      /\ last_doc' = doc
      /\ last_arg' = ci
      /\ ret' = IF c = None THEN "none" ELSE "found"
      /\ err' = ""
      /\ results' = IF c = None THEN << >> ELSE <<c>>
      /\ fetched' = 0
      /\ candidates' = << >>
      /\ NoQuery
      /\ UNCHANGED <<is_initialized, index, document_chunks, faiss_file, meta_file,
                     documents, db_chunks, uuids, removed, assigned, slots_saved, slots_prev,
                     cvars, tvars, rerank_initialized, model_type, llm_initialized, pipeline,
                     queries>>

\* embedding_service.search(query, top_k), as process_query calls it.
Search(q, top_k, modelLoads) ==
  LET i == Initialize(Service, faiss_file, meta_file, modelLoads)
  IN  /\ is_initialized => modelLoads
      /\ Step
      /\ last_op' = "search"
      /\ last_arg' = top_k
      /\ SetService(i.s)
      /\ ret' = IF i.raised THEN "raised" ELSE "ok"
      /\ err' = IF i.raised THEN "initialize" ELSE ""
      /\ results' = IF i.raised THEN << >> ELSE SearchResults(i.s, q, top_k)
      /\ last_doc' = 0
      /\ fetched' = IF i.raised THEN 0 ELSE EffectiveTopK(top_k)
      /\ candidates' = IF i.raised THEN << >>
                       ELSE FaissSearch(i.s.index, q, EffectiveTopK(top_k))
      /\ UNCHANGED <<faiss_file, meta_file, documents, db_chunks, uuids, removed,
                     assigned, slots_saved, slots_prev, cvars, tvars, rerank_initialized,
                     model_type, llm_initialized, pipeline, queries>>
      /\ NoQuery

\* embedding_service.search_by_document(query, document_id, top_k), as
\* process_query calls it when the request names a document; top_k is an int.
SearchByDocument(q, doc, top_k, modelLoads) ==
  LET i == Initialize(Service, faiss_file, meta_file, modelLoads)
  IN  /\ doc <= uuids
      /\ is_initialized => modelLoads
      /\ Step
      /\ last_op' = "search_by_document"
      /\ last_arg' = top_k
      /\ last_doc' = doc
      /\ SetService(i.s)
      /\ ret' = IF i.raised THEN "raised" ELSE "ok"
      /\ err' = IF i.raised THEN "initialize" ELSE ""
      /\ results' = IF i.raised THEN << >> ELSE SearchByDocumentResults(i.s, q, doc, top_k)
      /\ fetched' = IF i.raised THEN 0 ELSE EffectiveTopK(top_k * 2)
      /\ candidates' = IF i.raised THEN << >>
                       ELSE FaissSearch(i.s.index, q, EffectiveTopK(top_k * 2))
      /\ UNCHANGED <<faiss_file, meta_file, documents, db_chunks, uuids, removed,
                     assigned, slots_saved, slots_prev, cvars, tvars, rerank_initialized,
                     model_type, llm_initialized, pipeline, queries>>
      /\ NoQuery

\* The process ends and a new one starts: module import runs
\* embedding_service = EmbeddingService(), reranking_service = RerankingService()
\* and llm_service = LLMService(); the files and the database stay.
Restart ==
  /\ Step
  /\ is_initialized' = FALSE
  /\ index' = Empty
  /\ document_chunks' = Empty
  /\ last_op' = "restart"
  /\ last_arg' = 0
  /\ ret' = "ok"
  /\ err' = ""
  /\ results' = << >>
  /\ NoSearch
  /\ removed' = {}
  /\ assigned' = << >>
  /\ slots_prev' = slots_saved
  /\ rerank_initialized' = FALSE
  /\ model_type' = "unset"
  /\ llm_initialized' = FALSE
  /\ pipeline' = FALSE
  /\ NoQuery
  /\ UNCHANGED <<faiss_file, meta_file, documents, db_chunks, uuids, slots_saved, queries,
                 cvars, tvars>>

\* One of the two files is lost or damaged while no process runs.
DamageStore(which, how) ==
  /\ last_op = "restart"
  /\ Step
  /\ IF which = "faiss"
     THEN /\ faiss_file.st = "ok"
          /\ faiss_file' = how
          /\ UNCHANGED meta_file
     ELSE /\ meta_file.st = "ok"
          /\ meta_file' = how
          /\ UNCHANGED faiss_file
  /\ UNCHANGED <<is_initialized, index, document_chunks, documents, db_chunks, uuids,
                 last_op, last_arg, ret, err, results, last_doc, fetched, candidates,
                 removed, assigned, slots_saved, slots_prev, cvars, tvars, rvars, qvars>>

InitService ==
  /\ is_initialized = FALSE
  /\ index = Empty
  /\ document_chunks = Empty
  /\ faiss_file = Missing
  /\ meta_file = Missing
  /\ documents = [d \in DocIds |-> "absent"]
  /\ db_chunks = {}
  /\ uuids = 0
  /\ steps = 0
  /\ last_op = "restart"
  /\ last_arg = 0
  /\ ret = "ok"
  /\ err = ""
  /\ results = << >>
  /\ last_doc = 0
  /\ fetched = 0
  /\ candidates = << >>
  /\ removed = {}
  /\ assigned = << >>
  /\ slots_saved = {}
  /\ slots_prev = {}

InitQueryIdle ==
  /\ llm_initialized = FALSE
  /\ pipeline = FALSE
  /\ queries = 0
  /\ stages = << >>
  /\ answer = NoAnswer
  /\ fault = "ok"

InitThreadsIdle ==
  /\ up_pc = "idle"
  /\ up_doc = 0
  /\ up_todo = << >>
  /\ del_pc = "idle"
  /\ del_doc = 0
  /\ del_pos = 0
  /\ del_size = 0
  /\ del_ret = "none"

InitChunkIdle ==
  /\ text = << >>
  /\ chunk_size = 0
  /\ overlap = 0
  /\ nlp = FALSE
  /\ chunks = << >>
  /\ chunk_ret = "none"

\* ------------------------------------------------------- RerankingService

\* Scores are whole multiples of a score unit; a combined score is held in
\* tenths of the unit, so that 0.3, 0.7 and 0.5 are the integers 3, 7 and 5.
Scores == 0..MaxScore
Candidates == [similarity_score : Scores, score : Scores]
CandidateLists == UNION {[1..n -> Candidates] : n \in 0..MaxCands}

Reranker == [is_initialized |-> rerank_initialized, model_type |-> model_type]

\* How loading the reranking model goes: the cross-encoder loads; its import
\* raises ImportError and the bi-encoder loads; CrossEncoder(...) raises
\* something else (the weights cannot be fetched or read); the import raises
\* ImportError and loading the bi-encoder raises.
RerankLoads == {"cross_encoder", "import_error", "load_raises", "fallback_load_raises"}

\* RerankingService.initialize: [r, raised].
RerankInitialize(r, load) ==
  IF r.is_initialized THEN [r |-> r, raised |-> FALSE]
  ELSE IF load = "cross_encoder"
       THEN [r |-> [is_initialized |-> TRUE, model_type |-> "cross_encoder"], raised |-> FALSE]
  ELSE IF load = "import_error"
       THEN [r |-> [is_initialized |-> TRUE, model_type |-> "bi_encoder"], raised |-> FALSE]
  ELSE [r |-> r, raised |-> TRUE]

\* top_k or settings.TOP_K_RERANK
EffectiveRerankK(top_k) == IF top_k = 0 THEN TOP_K_RERANK ELSE top_k

\* A fusion with the weights of the other mode.
CombinedScoreSwapped(mode, sim, sc) ==
  IF mode = "cross_encoder" THEN 5 * sim + 5 * sc ELSE 3 * sim + 7 * sc

\* combined_score, in tenths of the score unit.
CombinedScore(mode, sim, sc) ==
  IF mode = "cross_encoder" THEN 3 * sim + 7 * sc ELSE 5 * sim + 5 * sc

\* The loop that scores the candidates: each gets cross_encoder_score and
\* combined_score; pos is its place in the input list.
Scored(mode, rs) ==
  [i \in 1..Len(rs) |->
     [pos |-> i, similarity_score |-> rs[i].similarity_score,
      cross_encoder_score |-> rs[i].score,
      combined_score |-> CombinedScore(mode, rs[i].similarity_score, rs[i].score)]]

\* An insertion that puts x before the elements it ties with.
InsertBeforeTies(x, sorted) ==
  LET before == {i \in 1..Len(sorted) : sorted[i].combined_score > x.combined_score}
      n == Cardinality(before)
  IN  SubSeq(sorted, 1, n) \o <<x>> \o SubSeq(sorted, n + 1, Len(sorted))

\* Where sorted(..., reverse=True) puts x into a list already sorted: after
\* every element whose key is at least x's (the sort is stable).
InsertDescending(x, sorted) ==
  LET before == {i \in 1..Len(sorted) : sorted[i].combined_score >= x.combined_score}
      n == Cardinality(before)
  IN  SubSeq(sorted, 1, n) \o <<x>> \o SubSeq(sorted, n + 1, Len(sorted))

\* sorted(search_results, key=lambda x: x['combined_score'], reverse=True)
RECURSIVE SortedDescending(_, _)
SortedDescending(rs, acc) ==
  IF rs = << >> THEN acc
  ELSE SortedDescending(Tail(rs), InsertDescending(Head(rs), acc))

\* rerank_results: [r, ret, out]. scoring: "ok", or "raises" when model.predict
\* / model.encode raises.
RerankResults(r, rs, top_k, load, scoring) ==
  LET i == RerankInitialize(r, load)
  IN  IF i.raised THEN [r |-> i.r, ret |-> "raised", out |-> << >>]
      ELSE IF rs = << >> THEN [r |-> i.r, ret |-> "ok", out |-> << >>]
      ELSE IF scoring = "raises" THEN [r |-> i.r, ret |-> "raised", out |-> << >>]
      ELSE [r |-> i.r, ret |-> "ok",
            out |-> Take(SortedDescending(Scored(i.r.model_type, rs), << >>),
                         EffectiveRerankK(top_k))]

\* A call of rerank_results on the candidates and top_k drawn at the start.
RerankCall(load, scoring) ==
  LET c == RerankResults(Reranker, search_results, rerank_top_k, load, scoring)
  IN  /\ rerank_initialized => load = "cross_encoder"
      /\ rerank_initialized' = c.r.is_initialized
      /\ model_type' = c.r.model_type
      /\ rerank_ret' = c.ret
      /\ reranked' = c.out
      /\ UNCHANGED <<search_results, rerank_top_k, svars, cvars, tvars, qvars>>

InitRerankIdle ==
  /\ rerank_initialized = FALSE
  /\ model_type = "unset"
  /\ search_results = << >>
  /\ rerank_top_k = 0
  /\ reranked = << >>
  /\ rerank_ret = "none"

InitRerank ==
  /\ InitService
  /\ InitThreadsIdle
  /\ InitChunkIdle
  /\ InitQueryIdle
  /\ rerank_initialized = FALSE
  /\ model_type = "unset"
  /\ search_results \in CandidateLists
  /\ rerank_top_k \in 0..MaxRerankK
  /\ reranked = << >>
  /\ rerank_ret = "none"

\* The reranker on its own: every candidate list and top_k within the bounds.
SpecRerank ==
  InitRerank /\ [][\E l \in RerankLoads, sc \in {"ok", "raises"} : RerankCall(l, sc)]_vars

\* ---------------------------------------------------------- QueryProcessor

\* The similarity score of the i-th result: index.search gives the inner
\* products in descending order.
SimilarityScore(i) == IF i - 1 < MaxScore THEN MaxScore - (i - 1) ELSE 0

\* The score the reranking model gives the text of a chunk for a query.
ModelScore(q, slot) == (slot + q) % (MaxScore + 1)

\* document_results as rerank_results reads them.
AsCandidates(q, res) ==
  [i \in 1..Len(res) |->
     [similarity_score |-> SimilarityScore(i), score |-> ModelScore(q, res[i].slot)]]

\* What goes wrong around a process_query call, if anything:
\*   tokenizer_raises: the LLM tokenizer does not load;
\*   embed_load_fails: the embedding model does not load;
\*   rerank_import_error, rerank_load_raises, rerank_fallback_load_raises: as RerankLoads;
\*   scoring_raises: the reranking model raises on the candidates;
\*   commit_raises: the commit of the Query row raises;
\*   models_unavailable: none of the three models can be loaded (the generative
\*     model in the way initialize absorbs, the tokenizer being there).
\* One thing goes wrong in a call: with any of these the generative model, if it
\* is loaded, gives an output without JSON.
QueryOutcomes == {"ok", "tokenizer_raises", "embed_load_fails", "rerank_import_error",
                  "rerank_load_raises", "rerank_fallback_load_raises", "scoring_raises",
                  "commit_raises", "models_unavailable"}

RerankLoadOf(outcome) ==
  IF outcome = "rerank_import_error" THEN "import_error"
  ELSE IF outcome \in {"rerank_load_raises", "models_unavailable"} THEN "load_raises"
  ELSE IF outcome = "rerank_fallback_load_raises" THEN "fallback_load_raises"
  ELSE "cross_encoder"

\* store_query_in_db: the rows of table Query after the call.
StoreQueryTwice(rows, commits) == IF commits THEN rows + 2 ELSE rows

StoreQueryInDb(rows, commits) == IF commits THEN rows + 1 ELSE rows

\* process_query(QueryRequest(query=q, document_id=doc if byDoc, max_results=top_k)).
ProcessQuery(q, byDoc, doc, top_k, outcome, gen) ==
  /\ outcome = "tokenizer_raises" => ~llm_initialized /\ gen = "no_pipeline"
  /\ llm_initialized => (gen = "no_pipeline" <=> ~pipeline)
  /\ outcome \notin {"ok", "tokenizer_raises"} => gen \in {"no_pipeline", "no_json"}
  /\ outcome \in {"embed_load_fails", "models_unavailable"} => ~is_initialized
  /\ outcome \in {"rerank_import_error", "rerank_load_raises",
                   "rerank_fallback_load_raises", "models_unavailable"} => ~rerank_initialized
  /\ outcome = "models_unavailable" => ~llm_initialized /\ gen = "no_pipeline"
  /\ IF byDoc THEN doc <= uuids ELSE doc = UnknownDoc
  /\ Step
  /\ \E e \in {ExtractStructuredQuery(
                  Llm, IF outcome = "tokenizer_raises" THEN "tokenizer_raises"
                       ELSE IF gen = "no_pipeline" THEN "model_load_fails" ELSE "loads", gen)},
        i \in {Initialize(Service, faiss_file, meta_file,
                         outcome \notin {"embed_load_fails", "models_unavailable"})} :
     \E res \in {IF byDoc THEN SearchByDocumentResults(i.s, q, doc, top_k)
                  ELSE SearchResults(i.s, q, top_k)} :
     \E r \in {RerankResults(Reranker, AsCandidates(q, res), top_k, RerankLoadOf(outcome),
                              IF outcome = "scoring_raises" THEN "raises" ELSE "ok")} :
     \E g \in {GenerateAnswer(e.l, [j \in 1..Len(r.out) |-> res[r.out[j].pos].slot],
                               "loads", gen)} :
     LET k == EffectiveTopK(IF byDoc THEN top_k * 2 ELSE top_k)
         searched == e.ret = "ok" /\ ~i.raised
         ranked == searched /\ r.ret = "ok"
         built == ranked /\ g.answer.via # "model_missing_keys"
         stored == built /\ outcome # "commit_raises"
     IN  /\ outcome = "scoring_raises" => res # << >>
         /\ last_op' = "process_query"
         /\ last_arg' = top_k
         /\ last_doc' = doc
         /\ fault' = outcome
         /\ llm_initialized' = e.l.is_initialized
         /\ pipeline' = e.l.pipeline
         /\ IF e.ret = "ok" THEN SetService(i.s)
            ELSE UNCHANGED <<is_initialized, index, document_chunks>>
         /\ results' = IF searched THEN res ELSE << >>
         /\ fetched' = IF searched THEN k ELSE 0
         /\ candidates' = IF searched THEN FaissSearch(i.s.index, q, k) ELSE << >>
         /\ rerank_initialized' = IF searched THEN r.r.is_initialized ELSE rerank_initialized
         /\ model_type' = IF searched THEN r.r.model_type ELSE model_type
         /\ search_results' = IF searched THEN AsCandidates(q, res) ELSE << >>
         /\ rerank_top_k' = IF searched THEN top_k ELSE 0
         /\ rerank_ret' = IF searched THEN r.ret ELSE "none"
         /\ reranked' = IF ranked THEN r.out ELSE << >>
         /\ answer' = IF ranked THEN g.answer ELSE NoAnswer
         /\ queries' = IF built THEN StoreQueryInDb(queries, outcome # "commit_raises")
                       ELSE queries
         /\ stages' = IF stored THEN <<"intent", "retrieval", "rerank", "answer", "persist">>
                      ELSE IF ranked THEN <<"intent", "retrieval", "rerank", "answer">>
                      ELSE IF searched THEN <<"intent", "retrieval">>
                      ELSE IF e.ret = "ok" THEN <<"intent">>
                      ELSE << >>
         /\ ret' = IF stored THEN "ok" ELSE "raised"
         /\ err' = IF e.ret # "ok" THEN "extract_structured_query"
                   ELSE IF i.raised THEN (IF byDoc THEN "search_by_document" ELSE "search")
                   ELSE IF r.ret # "ok" THEN "rerank_results"
                   ELSE IF ~built THEN "process_query"
                   ELSE IF ~stored THEN "store_query_in_db"
                   ELSE ""
  /\ UNCHANGED <<faiss_file, meta_file, documents, db_chunks, uuids, removed,
                 assigned, slots_saved, slots_prev, cvars, tvars>>

\* The query pipeline: documents are processed without a failure (Spec has the
\* failures), queries are answered, the process restarts.
NextQuery ==
  \/ \E n \in 1..MaxChunks, l \in BOOLEAN :
       steps < MaxQuerySteps /\ ProcessDocument(n, "ok", l)
  \/ \E q \in 1..MaxQueries, d \in DocIds, k \in 0..MaxTopK, m \in BOOLEAN :
       steps < MaxQuerySteps /\ SearchByDocument(q, d, k, m)
  \/ \E q \in 1..MaxQueries, b \in BOOLEAN, d \in DocIds, k \in 0..MaxTopK,
        o \in QueryOutcomes, g \in GenHows :
       steps < MaxQuerySteps /\ ProcessQuery(q, b, d, k, o, g)
  \/ steps < MaxQuerySteps /\ Restart

\* --------------------------------------------------------- DocumentParser

\* The words a text is made of.
Alphabet == {"a", "b"}

\* The sentences doc.sents yields, stripped: each holds at least one word.
Sentences == UNION {[1..n -> Alphabet] : n \in 1..MaxSentWords}
Texts == UNION {[1..n -> Sentences] : n \in 0..MaxSents}

\* text.split(): the words of a text, in order.
RECURSIVE Words(_)
Words(t) == IF t = << >> THEN << >> ELSE Head(t) \o Words(Tail(t))

\* chunk_size or settings.CHUNK_SIZE
EffectiveChunkSize(cs) == IF cs = 0 THEN CHUNK_SIZE ELSE cs

\* overlap or settings.CHUNK_OVERLAP
EffectiveOverlap(ov) == IF ov = 0 THEN CHUNK_OVERLAP ELSE ov

Min(a, b) == IF a < b THEN a ELSE b

\* A slice that is dropped unless the whole window fits.
SliceFullWindowOnly(ws, i, cs) == IF i + cs <= Len(ws) THEN SubSeq(ws, i + 1, i + cs) ELSE << >>

\* words[i:i + chunk_size] for a 0-based i within the list.
Slice(ws, i, cs) == SubSeq(ws, i + 1, Min(i + cs, Len(ws)))

\* A chunk dict numbered from 1.
ChunkNumberedFromOne(ci, ws, wc) == [chunk_index |-> ci + 1, text |-> ws, word_count |-> wc]

Chunk(ci, ws, wc) == [chunk_index |-> ci, text |-> ws, word_count |-> wc]

\* _simple_chunking, the loop: for i in range(i0, len(words), step), step >= 1;
\* ci is chunk_index, acc is chunks.
RECURSIVE SimpleLoop(_, _, _, _, _, _)
SimpleLoop(ws, cs, step, i, ci, acc) ==
  IF i >= Len(ws) THEN acc
  ELSE SimpleLoop(ws, cs, step, i + step, ci + 1,
                  Append(acc, Chunk(ci, Slice(ws, i, cs), Len(Slice(ws, i, cs)))))

\* _simple_chunking: range() raises ValueError on a step of 0 and is empty on a
\* negative step.
SimpleChunking(t, cs, ov) ==
  LET step == cs - ov
  IN  IF step = 0 THEN [ret |-> "raised", chunks |-> << >>]
      ELSE IF step < 0 THEN [ret |-> "ok", chunks |-> << >>]
      ELSE [ret |-> "ok", chunks |-> SimpleLoop(Words(t), cs, step, 0, 0, << >>)]

\* An overlap taken from the front of the chunk.
GetOverlapTextFirstWords(ws, overlap_words) ==
  IF Len(ws) <= overlap_words \/ overlap_words = 0 THEN ws
  ELSE SubSeq(ws, 1, overlap_words)

\* _get_overlap_text: the last overlap_words words; words[-0:] is the whole list.
GetOverlapText(ws, overlap_words) ==
  IF Len(ws) <= overlap_words \/ overlap_words = 0 THEN ws
  ELSE SubSeq(ws, Len(ws) - overlap_words + 1, Len(ws))

\* _intelligent_chunking, the loop over sentences and the last chunk.
\* cur is current_chunk as its words, size is current_size, ci is chunk_index.
RECURSIVE IntelligentLoop(_, _, _, _, _, _, _)
IntelligentLoop(sents, cs, ov, cur, size, ci, acc) ==
  IF sents = << >>
  THEN IF cur # << >> THEN Append(acc, Chunk(ci, cur, size)) ELSE acc
  ELSE LET sentence == Head(sents)
       IN  IF size + Len(sentence) > cs /\ cur # << >>
           THEN LET next == GetOverlapText(cur, ov) \o sentence
                IN  IntelligentLoop(Tail(sents), cs, ov, next, Len(next), ci + 1,
                                    Append(acc, Chunk(ci, cur, size)))
           ELSE IntelligentLoop(Tail(sents), cs, ov, cur \o sentence,
                                size + Len(sentence), ci, acc)

IntelligentChunking(t, cs, ov) ==
  [ret |-> "ok", chunks |-> IntelligentLoop(t, cs, ov, << >>, 0, 0, << >>)]

\* chunk_text: [ret, chunks].
ChunkText(t, cs, ov, withNlp) ==
  IF withNlp
  THEN IntelligentChunking(t, EffectiveChunkSize(cs), EffectiveOverlap(ov))
  ELSE SimpleChunking(t, EffectiveChunkSize(cs), EffectiveOverlap(ov))

\* A call of chunk_text on the arguments drawn at the start.
ChunkTextCall ==
  LET r == ChunkText(text, chunk_size, overlap, nlp)
  IN  /\ chunk_ret = "none"
      /\ chunk_ret' = r.ret
      /\ chunks' = r.chunks
      /\ UNCHANGED <<text, chunk_size, overlap, nlp, svars, rvars, qvars, tvars>>

InitChunk ==
  /\ InitService
  /\ InitThreadsIdle
  /\ InitRerankIdle
  /\ InitQueryIdle
  /\ text \in Texts
  /\ chunk_size \in 0..MaxArg
  /\ overlap \in 0..MaxArg
  /\ nlp \in BOOLEAN
  /\ chunks = << >>
  /\ chunk_ret = "none"

Init == InitService /\ InitChunkIdle /\ InitRerankIdle /\ InitQueryIdle /\ InitThreadsIdle

\* The chunker on its own: every text and argument pair within the bounds.
SpecChunk == InitChunk /\ [][ChunkTextCall]_vars

Next ==
  \/ \E n \in 1..MaxChunks, o \in ProcessOutcomes : ProcessDocument(n, o, TRUE)
  \/ \E d \in DocIds, o \in DeleteOutcomes : DeleteDocument(d, o)
  \/ \E q \in 1..MaxQueries, k \in 0..MaxTopK, m \in BOOLEAN : Search(q, k, m)
  \/ Restart
  \/ \E w \in {"faiss", "meta"}, h \in {Missing, Corrupt} : DamageStore(w, h)

\* The index and its store under every failure of process_document and
\* delete_document; the generative model loads (SpecQuery has the case it
\* does not).
Spec == Init /\ [][Next]_vars

SpecQuery == Init /\ [][NextQuery]_vars

\* The lookups by id, among uploads, deletions and restarts.
NextLookup ==
  \/ \E n \in 1..MaxChunks : steps < MaxQuerySteps /\ ProcessDocument(n, "ok", TRUE)
  \/ \E d \in DocIds, o \in DeleteOutcomes : steps < MaxQuerySteps /\ DeleteDocument(d, o)
  \/ \E d \in DocIds : steps < MaxQuerySteps /\ GetDocumentInfo(d)
  \/ \E d \in DocIds, ci \in 0..MaxChunks : steps < MaxQuerySteps /\ GetChunkByIdCall(d, ci)
  \/ steps < MaxQuerySteps /\ Restart

SpecLookup == Init /\ [][NextLookup]_vars

\* ----------------------------------------------------- concurrent requests

\* What a step of one of the two requests below leaves alone.
idle_obs == <<steps, last_op, last_arg, ret, err, results, last_doc, fetched, candidates,
              removed, assigned, slots_saved, slots_prev, cvars, rvars, qvars>>

\* process_document on the event loop, up to the loop of add_documents: the
\* Document row is committed with status 'processing', the text is chunked
\* into n chunks and add_documents initializes the service.
UpBegin(n) ==
  LET i == Initialize(Service, faiss_file, meta_file, TRUE)
  IN  /\ up_pc = "idle"
      /\ uuids < MaxDocs
      /\ uuids' = uuids + 1
      /\ up_doc' = uuids + 1
      /\ up_todo' = ChunkIndexes(n)
      /\ up_pc' = "store"
      /\ SetService(i.s)
      /\ documents' = [documents EXCEPT ![uuids + 1] = "processing"]
      /\ UNCHANGED <<faiss_file, meta_file, db_chunks, del_pc, del_doc, del_pos, del_size,
                     del_ret, idle_obs>>

\* One round of add_documents' loop: the entry of the next chunk is stored.
UpStore ==
  /\ up_pc = "store"
  /\ document_chunks' = StoreChunks(document_chunks, up_doc, <<Head(up_todo)>>, << >>).dc
  /\ up_todo' = Tail(up_todo)
  /\ up_pc' = IF Tail(up_todo) = << >> THEN "encode" ELSE "store"
  /\ UNCHANGED <<is_initialized, index, faiss_file, meta_file, documents, db_chunks, uuids,
                 up_doc, del_pc, del_doc, del_pos, del_size, del_ret, idle_obs>>

\* encode_texts and index.add, then the clauses and the commit of
\* process_document: the vectors of the document's chunks join the index.
UpAdd ==
  LET n == Cardinality({k \in DOMAIN document_chunks :
                          document_chunks[k].document_id = up_doc})
  IN  /\ up_pc = "encode"
      /\ index' = index \o [j \in 1..n |-> <<up_doc, j - 1>>]
      /\ documents' = [documents EXCEPT ![up_doc] = "completed"]
      /\ db_chunks' = db_chunks \cup ChunkRows(up_doc, n)
      /\ up_pc' = "write_index"
      /\ UNCHANGED <<is_initialized, document_chunks, faiss_file, meta_file, uuids, up_doc,
                     up_todo, del_pc, del_doc, del_pos, del_size, del_ret, idle_obs>>

\* save_index, its first write: faiss.write_index.
UpWriteIndex ==
  /\ up_pc = "write_index"
  /\ faiss_file' = File(index)
  /\ up_pc' = "write_meta"
  /\ UNCHANGED <<is_initialized, index, document_chunks, meta_file, documents, db_chunks,
                 uuids, up_doc, up_todo, del_pc, del_doc, del_pos, del_size, del_ret,
                 idle_obs>>

\* save_index, its second write: json.dump of document_chunks; the request ends.
UpWriteMeta ==
  /\ up_pc = "write_meta"
  /\ meta_file' = File(DumpKeys(document_chunks))
  /\ up_pc' = "idle"
  /\ up_doc' = 0
  /\ UNCHANGED <<is_initialized, index, document_chunks, faiss_file, documents, db_chunks,
                 uuids, up_todo, del_pc, del_doc, del_pos, del_size, del_ret, idle_obs>>

\* delete_document(d) starts on a worker thread: remove_document takes the
\* iterator of document_chunks.items(). The document is not the one whose
\* upload is running.
DelBegin(d) ==
  /\ del_pc = "idle"
  /\ d <= uuids
  /\ up_pc # "idle" => d # up_doc
  /\ del_doc' = d
  /\ del_pos' = 0
  /\ del_size' = Len0(document_chunks)
  /\ del_pc' = "mark"
  /\ del_ret' = "none"
  /\ UNCHANGED <<is_initialized, index, document_chunks, faiss_file, meta_file, documents,
                 db_chunks, uuids, up_pc, up_doc, up_todo, idle_obs>>

\* One round of remove_document's loop. The iterator raises RuntimeError when
\* the dict has changed size since the loop began (delete_document catches it
\* and returns False). At its end the rows are deleted and committed, or False
\* is returned for an id without a row.
DelMark ==
  /\ del_pc = "mark"
  /\ IF Len0(document_chunks) # del_size
     THEN /\ del_pc' = "idle"
          /\ del_ret' = "false"
          /\ UNCHANGED <<document_chunks, documents, db_chunks, del_pos>>
     ELSE IF del_pos < del_size
     THEN /\ document_chunks' =
               IF document_chunks[del_pos].document_id = del_doc
               THEN [document_chunks EXCEPT ![del_pos].deleted = TRUE]
               ELSE document_chunks
          /\ del_pos' = del_pos + 1
          /\ UNCHANGED <<documents, db_chunks, del_pc, del_ret>>
     ELSE IF documents[del_doc] = "absent"
     THEN /\ del_pc' = "idle"
          /\ del_ret' = "false"
          /\ UNCHANGED <<document_chunks, documents, db_chunks, del_pos>>
     ELSE /\ documents' = [documents EXCEPT ![del_doc] = "absent"]
          /\ db_chunks' = {r \in db_chunks : r[1] # del_doc}
          /\ del_pc' = IF is_initialized THEN "write_index" ELSE "idle"
          /\ del_ret' = IF is_initialized THEN "none" ELSE "true"
          /\ UNCHANGED <<document_chunks, del_pos>>
  /\ UNCHANGED <<is_initialized, index, faiss_file, meta_file, uuids, del_doc, del_size,
                 up_pc, up_doc, up_todo, idle_obs>>

\* save_index on the worker thread, its first write.
DelWriteIndex ==
  /\ del_pc = "write_index"
  /\ faiss_file' = File(index)
  /\ del_pc' = "write_meta"
  /\ UNCHANGED <<is_initialized, index, document_chunks, meta_file, documents, db_chunks,
                 uuids, del_doc, del_pos, del_size, del_ret, up_pc, up_doc, up_todo,
                 idle_obs>>

\* save_index on the worker thread, its second write. json.dump iterates over
\* document_chunks: while add_documents' loop is storing entries the
\* iteration either sees the dict as it is or raises RuntimeError with the
\* file half written.
DelWriteMeta(raises) ==
  /\ del_pc = "write_meta"
  /\ raises => up_pc = "store"
  /\ meta_file' = IF raises THEN Corrupt ELSE File(DumpKeys(document_chunks))
  /\ del_ret' = IF raises THEN "false" ELSE "true"
  /\ del_pc' = "idle"
  /\ UNCHANGED <<is_initialized, index, document_chunks, faiss_file, documents, db_chunks,
                 uuids, del_doc, del_pos, del_size, up_pc, up_doc, up_todo, idle_obs>>

\* An upload on the event loop and a delete_document on a worker thread, step
\* by step, with searches between the requests of the event loop.
NextThreads ==
  \/ \E n \in 1..MaxChunks : UpBegin(n)
  \/ UpStore
  \/ UpAdd
  \/ UpWriteIndex
  \/ UpWriteMeta
  \/ \E d \in DocIds : DelBegin(d)
  \/ DelMark
  \/ DelWriteIndex
  \/ \E r \in BOOLEAN : DelWriteMeta(r)
  \/ \E q \in 1..MaxQueries, k \in 0..MaxTopK : up_pc = "idle" /\ Search(q, k, TRUE)

SpecThreads == Init /\ [][NextThreads]_vars

\* ------------------------------------------------------------------ claims

\* Slots of the table that search may count as live: not marked deleted, and
\* with a vector in the index.
LiveSlots == {k \in DOMAIN document_chunks :
                ~document_chunks[k].deleted /\ k < Len(index)}

\* C1: once remove_document(d) has run in this process, a search returns no
\* result whose document_id is d.
C1_SearchExcludesRemoved ==
  last_op = "search" => \A i \in 1..Len(results) : results[i].document_id \notin removed

\* C2: when the index holds at least top_k live entries, search(top_k) returns
\* exactly top_k results, every one of them live.
C2_SearchReturnsTopKLive ==
  (last_op = "search" /\ ret = "ok" /\ Cardinality(LiveSlots) >= EffectiveTopK(last_arg))
    => /\ Len(results) = EffectiveTopK(last_arg)
       /\ \A i \in 1..Len(results) : ~results[i].deleted

\* C3: within one process the slot ids add_documents assigns are strictly
\* increasing in assignment order, so none is assigned twice, whatever
\* remove_document calls come in between.
C3_SlotsStrictlyIncreasing ==
  \A i, j \in 1..Len(assigned) : i < j => assigned[i] < assigned[j]

\* C3, its case: a second document got its slot after remove_document had
\* marked the entries of the first.
C3_Witness ==
  /\ last_op = "process_document"
  /\ Len(assigned) >= 2
  /\ \E k \in DOMAIN document_chunks :
       document_chunks[k].deleted /\ document_chunks[k].document_id \in removed

\* C4: a slot id assigned after a restart is greater than every slot id that a
\* completed save_index of an earlier process had written.
C4_SlotsNotReusedAcrossRestarts ==
  \A i \in 1..Len(assigned) : \A p \in slots_prev : assigned[i] > p

\* C5: every non-deleted entry of the slot table belongs to a document whose
\* chunk rows are still in the document store.
C5_NoDanglingLiveEntries ==
  \A k \in DOMAIN document_chunks :
    ~document_chunks[k].deleted =>
      \E r \in db_chunks : r[1] = document_chunks[k].document_id

\* Either file of the store is missing or corrupt.
BadStore == faiss_file.st # "ok" \/ meta_file.st # "ok"

\* C6: an initialize() that finds either file missing or corrupt completes with
\* an empty index and an empty slot table (here: the initialize a search of a
\* fresh process runs, the embedding model loading).
C6_LoadFallsBackToEmpty ==
  [][(~is_initialized /\ BadStore /\ last_op' = "search" /\ ret' = "ok")
       => (is_initialized' /\ index' = Empty /\ document_chunks' = Empty)]_vars

\* C6, its case: a slot table had been saved, a file of the store is corrupt,
\* and the search of the next process came back from an empty index.
C6_Witness ==
  /\ last_op = "search" /\ ret = "ok"
  /\ slots_saved # {}
  /\ faiss_file.st = "corrupt" \/ meta_file.st = "corrupt"
  /\ is_initialized /\ index = Empty /\ document_chunks = Empty

\* C7: after _load_index the index holds as many vectors as the slot table has
\* entries.
C7_RestoreConsistent ==
  [][(~is_initialized /\ last_op' = "search" /\ ret' = "ok")
       => Len(index') = Len0(document_chunks')]_vars

\* C8: an add_documents call that raises leaves the slot table and the number
\* of vectors as they were (the service being initialized before the call).
C8_FailedAddMutatesNothing ==
  [][(is_initialized /\ last_op' = "process_document" /\ err' = "add_documents")
       => (document_chunks' = document_chunks /\ Len(index') = Len(index))]_vars

\* What is left of the chunks when each chunk after the first loses the words
\* it shares with the chunk before it, the first ov of its words.
RECURSIVE Reconstruct(_, _)
Reconstruct(cs, ov) ==
  IF cs = << >> THEN << >>
  ELSE Head(cs).text \o
       Reconstruct([i \in 1..(Len(cs) - 1) |->
                      IF i = 1
                      THEN [cs[2] EXCEPT !.text =
                              SubSeq(cs[2].text, Min(ov, Len(cs[2].text)) + 1, Len(cs[2].text))]
                      ELSE cs[i + 1]], ov)

\* C9: chunk_text called with overlap >= chunk_size (both given) raises, and
\* returns no chunk list.
C9_RejectsOverlapNotBelowSize ==
  (chunk_ret # "none" /\ chunk_size >= 1 /\ overlap >= chunk_size) => chunk_ret = "raised"

\* C10: in word mode, for 0 <= overlap < chunk_size, the chunks returned give
\* back the words of the text, in order, once the overlaps are dropped.
C10_WordChunksCoverText ==
  (chunk_ret # "none" /\ ~nlp /\ chunk_size >= 1 /\ overlap < chunk_size)
    => (chunk_ret = "ok" /\ Reconstruct(chunks, overlap) = Words(text))

\* C11: the chunk_index values of the chunks chunk_text returns are 0, 1, ...,
\* N-1 in list order, in word mode and in sentence mode.
C11_ChunkIndexContiguous ==
  chunk_ret = "ok" => \A i \in 1..Len(chunks) : chunks[i].chunk_index = i - 1

\* C11, its case: sentence mode returned several chunks.
C11_Witness == chunk_ret = "ok" /\ nlp /\ Len(chunks) >= 2

\* C12: in word mode with a stride s = chunk_size - overlap >= 1 (the values
\* _simple_chunking is given) and n words, there is one chunk for every k with
\* k*s < n; chunk k is words[k*s .. k*s + chunk_size) clipped to n and is never
\* empty; an empty text gives an empty list and no error.
C12_WordWindows ==
  LET cs == EffectiveChunkSize(chunk_size)
      s == cs - EffectiveOverlap(overlap)
      ws == Words(text)
      n == Len(ws)
  IN  (chunk_ret # "none" /\ ~nlp /\ s >= 1)
        => /\ chunk_ret = "ok"
           /\ Len(chunks) = Cardinality({k \in 0..n : k * s < n})
           /\ \A k \in 0..(Len(chunks) - 1) :
                /\ chunks[k + 1].text = SubSeq(ws, k * s + 1, Min(k * s + cs, n))
                /\ chunks[k + 1].text # << >>
                /\ chunks[k + 1].word_count = Len(chunks[k + 1].text)

\* C12, its case: word mode returned several windows, the last one partial.
C12_Witness ==
  /\ chunk_ret = "ok" /\ ~nlp /\ chunk_size >= 1 /\ overlap >= 1
  /\ Len(chunks) >= 2
  /\ chunks[Len(chunks)].word_count < chunk_size

\* The place of FAISS id c in the list index.search gave back.
Rank(c) == CHOOSE i \in 1..Len(candidates) : candidates[i] = c

\* The fetched candidates search keeps that belong to the requested document.
OfDocument == {i \in 1..Len(candidates) :
                 /\ Eligible(document_chunks, candidates[i])
                 /\ document_chunks[candidates[i]].document_id = last_doc}

C14_CombinedScoreWeights ==
  rerank_ret = "ok" =>
    \A i \in 1..Len(reranked) :
      LET c == reranked[i]
      IN  /\ model_type \in {"cross_encoder", "bi_encoder"}
          /\ model_type = "cross_encoder" =>
               c.combined_score = 3 * c.similarity_score + 7 * c.cross_encoder_score
          /\ model_type = "bi_encoder" =>
               c.combined_score = 5 * c.similarity_score + 5 * c.cross_encoder_score
          /\ c.similarity_score = search_results[c.pos].similarity_score
          /\ c.cross_encoder_score = search_results[c.pos].score

\* C14, its case: a candidate whose two scores differ came back, so that the
\* two weightings give different values.
C14_Witness ==
  /\ rerank_ret = "ok"
  /\ \E i \in 1..Len(reranked) :
       reranked[i].similarity_score # reranked[i].cross_encoder_score

\* C15: the list rerank_results returns is in descending combined_score, and
\* candidates of equal combined_score keep their input order.
C15_SortedDescendingStable ==
  rerank_ret = "ok" =>
    \A i, j \in 1..Len(reranked) :
      i < j => \/ reranked[i].combined_score > reranked[j].combined_score
               \/ /\ reranked[i].combined_score = reranked[j].combined_score
                  /\ reranked[i].pos < reranked[j].pos

\* C15, its case: two candidates of equal combined_score and different scores
\* came back.
C15_Witness ==
  /\ rerank_ret = "ok"
  /\ \E i, j \in 1..Len(reranked) :
       /\ i # j
       /\ reranked[i].combined_score = reranked[j].combined_score
       /\ reranked[i].similarity_score # reranked[j].similarity_score

\* C16: rerank_results returns exactly min(top_k, len(candidates)) candidates
\* for every top_k >= 0, and an empty list for no candidates.
C16_RerankReturnsTopK ==
  rerank_ret = "ok" => Len(reranked) = Min(rerank_top_k, Len(search_results))

\* C17: once a rerank_results call has attempted initialize(), model_type is
\* one of the two modes, also when the cross-encoder could not be loaded.
C17_ModeDefinedAfterInitialize ==
  rerank_ret # "none" => model_type \in {"cross_encoder", "bi_encoder"}

\* C18: process_query completes its stages in the order intent, retrieval,
\* rerank, answer, persist; a call that returns writes exactly one Query row,
\* after the answer was produced, and a call that fails writes none.
C18_PersistOnceAfterAnswer ==
  [][last_op' = "process_query" =>
       /\ \E n \in 0..5 :
            stages' = SubSeq(<<"intent", "retrieval", "rerank", "answer", "persist">>, 1, n)
       /\ ret' = "ok" <=> (stages' # << >> /\ stages'[Len(stages')] = "persist")
       /\ ret' = "ok" => queries' = queries + 1 /\ answer' # NoAnswer
       /\ ret' # "ok" => queries' = queries]_vars

\* C18, its case: a query over a document's chunks went through all five
\* stages and its row is the one row of the table.
C18_Witness ==
  /\ last_op = "process_query" /\ ret = "ok"
  /\ Len(stages) = 5 /\ queries = 1
  /\ reranked # << >>

\* C19: when retrieval or reranking raises inside process_query, the call
\* still returns, with no evidence and the 'insufficient information' answer
\* (decision Unclear, confidence 0.1, no supporting evidence).
C19_RetrievalErrorsAbsorbed ==
  (last_op = "process_query"
     /\ fault \in {"embed_load_fails", "rerank_load_raises", "rerank_fallback_load_raises",
                   "scoring_raises"})
    => /\ ret = "ok"
       /\ reranked = << >>
       /\ answer.decision = "Unclear" /\ answer.confidence = "0.1"
       /\ answer.supporting_evidence = << >>

\* C20: extract_structured_query and generate_answer never raise, whatever
\* the generative model does: no process_query call ends with the exception
\* of either.
C20_LlmCallsNeverRaise ==
  last_op = "process_query" => err \notin {"extract_structured_query", "generate_answer"}

\* C21: with the embedding, the reranking and the generative model all
\* unavailable, process_query on a query returns a response with answer,
\* rationale and matched clauses instead of raising.
C21_AnswersWithoutModels ==
  (last_op = "process_query" /\ fault = "models_unavailable")
    => ret = "ok" /\ answer # NoAnswer /\ Len(stages) = 5

\* C22: no operation observes or persists an intermediate state of another:
\* a snapshot that a save_index has completed holds as many slot entries as
\* vectors, and a search sees the entries of a document all marked deleted
\* or none.
C22_MutationsSerialized ==
  /\ (faiss_file.st = "ok" /\ meta_file.st = "ok"
        /\ up_pc # "write_meta" /\ del_pc # "write_meta")
       => Len(faiss_file.data) = Len0(meta_file.data)
  /\ last_op = "search"
       => \A i, j \in 1..Len(results) :
            results[i].document_id = results[j].document_id
              => results[i].deleted = results[j].deleted

\* C23: a lookup by an id nothing is stored under gives the absent result and
\* no exception: get_document_info gives None for an id without a Document
\* row, get_chunk_by_id gives None for a chunk_id no slot entry has, and
\* delete_document gives False for an id without a Document row.
C23_UnknownIdIsAbsent ==
  [][/\ (last_op' = "get_document_info" /\ documents[last_arg'] = "absent")
          => ret' = "none"
     /\ (last_op' = "get_chunk_by_id"
          /\ \A k \in DOMAIN document_chunks :
                document_chunks[k].chunk_id # <<last_doc', last_arg'>>)
          => ret' = "none" /\ results' = << >>
     /\ (last_op' = "delete_document" /\ documents[last_arg'] = "absent")
          => ret' = "false" /\ err' = ""]_vars

\* C23, its case: a chunk_id that no entry has was looked up in a table that
\* holds entries.
C23_Witness ==
  /\ last_op = "get_chunk_by_id" /\ ret = "none"
  /\ document_chunks # Empty

\* C24: in every state of the embedding service the keys of the slot table
\* are exactly 0..N-1, N being the number of vectors in the index.
C24_SlotsMatchVectors ==
  DOMAIN document_chunks = 0..(Len(index) - 1)

\* C25: remove_document(d), as delete_document runs it, sets deleted on the
\* entries of d and changes nothing else: no entry goes or is renumbered, the
\* vectors stay, the entries of other documents stay as they are; on a
\* document already removed it changes nothing.
C25_RemoveMarksOnlyDocument ==
  [][last_op' = "delete_document" =>
       /\ index' = index
       /\ DOMAIN document_chunks' = DOMAIN document_chunks
       /\ \A k \in DOMAIN document_chunks :
            /\ document_chunks'[k].chunk_id = document_chunks[k].chunk_id
            /\ document_chunks'[k].document_id = document_chunks[k].document_id
            /\ document_chunks'[k].chunk_index = document_chunks[k].chunk_index
            /\ document_chunks'[k].deleted =
                 (document_chunks[k].deleted \/ document_chunks[k].document_id = last_arg')
       /\ last_arg' \in removed => document_chunks' = document_chunks]_vars

\* C25, its case: a document was removed while the table held another one's
\* entry, which is still live.
C25_Witness ==
  /\ last_op = "delete_document"
  /\ \E k \in DOMAIN document_chunks :
       document_chunks[k].document_id = last_arg /\ document_chunks[k].deleted
  /\ \E k \in DOMAIN document_chunks :
       document_chunks[k].document_id # last_arg /\ ~document_chunks[k].deleted

\* C26: save_index followed by _load_index in a fresh process reproduces the
\* saved state: when the process ends after a process_document or a
\* delete_document whose save_index completed, initialize in the next process
\* gives the same vectors and the same slot table (the same integer slot ids,
\* each with the same chunk_id, document_id, chunk_index and deleted flag).
C26_SaveLoadRoundTrip ==
  [][(last_op' = "restart" /\ last_op \in {"process_document", "delete_document"}
        /\ ret = "ok" /\ is_initialized)
       => Initialize([is_initialized |-> is_initialized', index |-> index',
                      document_chunks |-> document_chunks'],
                     faiss_file', meta_file', TRUE).s
            = [is_initialized |-> TRUE, index |-> index,
               document_chunks |-> document_chunks]]_vars

\* C26, its case: the process ended with a snapshot on disk that holds an
\* entry marked deleted.
C26_Witness ==
  /\ last_op = "restart" /\ ~is_initialized
  /\ faiss_file.st = "ok" /\ meta_file.st = "ok"
  /\ Len(faiss_file.data) > 0
  /\ \E k \in DOMAIN meta_file.data : meta_file.data[k].deleted

\* The words chunk i starts with that repeat the end of chunk i-1: its last
\* 'overlap' words, or all of it when it has no more.
SeedOf(i) ==
  IF i = 1 THEN << >>
  ELSE LET p == chunks[i - 1].text
           n == Min(EffectiveOverlap(overlap), Len(p))
       IN  SubSeq(p, Len(p) - n + 1, Len(p))

\* The number of words of chunk i after those.
FreshLen(i) == Len(chunks[i].text) - Len(SeedOf(i))

\* The number of words of the text in the chunks before chunk i.
RECURSIVE WordsBefore(_)
WordsBefore(i) == IF i = 1 THEN 0 ELSE WordsBefore(i - 1) + FreshLen(i - 1)

\* The number of words of the text before sentence j.
SentStart(j) == Len(Words(SubSeq(text, 1, j - 1)))

\* C27: in sentence mode, on the chunk_size and overlap _intelligent_chunking
\* receives: every chunk after the first starts with the last 'overlap' words
\* of the chunk before it, followed by the sentence whose addition would have
\* taken that chunk over chunk_size; every other sentence joined its chunk
\* within chunk_size; the chunks hold whole sentences, in order, and every
\* sentence of the text is in one.
C27_SentenceChunks ==
  LET cs == EffectiveChunkSize(chunk_size)
      ws == Words(text)
      n == Len(chunks)
      firsts == {j \in 1..Len(text) : \E i \in 1..n : SentStart(j) = WordsBefore(i)}
  IN  (chunk_ret = "ok" /\ nlp)
        => /\ \A i \in 1..n :
                /\ FreshLen(i) >= 1
                /\ SubSeq(chunks[i].text, 1, Len(SeedOf(i))) = SeedOf(i)
                /\ SubSeq(chunks[i].text, Len(SeedOf(i)) + 1, Len(chunks[i].text))
                     = SubSeq(ws, WordsBefore(i) + 1, WordsBefore(i) + FreshLen(i))
                /\ chunks[i].word_count = Len(chunks[i].text)
                /\ \E j \in 1..Len(text) :
                     /\ SentStart(j) = WordsBefore(i)
                     /\ i >= 2 => Len(chunks[i - 1].text) + Len(text[j]) > cs
           /\ WordsBefore(n + 1) = Len(ws)
           /\ \A j \in (1..Len(text)) \ firsts :
                \E i \in 1..n :
                  /\ WordsBefore(i) < SentStart(j)
                  /\ SentStart(j + 1) <= WordsBefore(i + 1)
                  /\ Len(SeedOf(i)) + SentStart(j + 1) - WordsBefore(i) <= cs

\* C27, its case: a sentence overflowed a chunk longer than the overlap, and
\* the next chunk starts with that chunk's last words.
C27_Witness ==
  /\ chunk_ret = "ok" /\ nlp /\ overlap >= 1
  /\ Len(chunks) >= 2
  /\ Len(chunks[1].text) > overlap

\* C28: a document whose processing_status is 'failed' has no live entry,
\* neither in the slot table in memory nor in the snapshot on disk.
C28_FailedDocumentNotLive ==
  /\ \A k \in DOMAIN document_chunks :
       documents[document_chunks[k].document_id] = "failed" => document_chunks[k].deleted
  /\ meta_file.st = "ok"
       => \A k \in DOMAIN meta_file.data :
            documents[meta_file.data[k].document_id] = "failed" => meta_file.data[k].deleted

\* C29: a delete_document call that returns False leaves both stores as they
\* were: no entry is marked deleted, no row is removed, and the snapshot on
\* disk is the one from before the call.
C29_FailedDeleteChangesNothing ==
  [][(last_op' = "delete_document" /\ ret' = "false")
       => /\ document_chunks' = document_chunks
          /\ index' = index
          /\ documents' = documents
          /\ db_chunks' = db_chunks
          /\ faiss_file' = faiss_file
          /\ meta_file' = meta_file]_vars

\* C30: a slot that remove_document has marked deleted stays deleted: in the
\* state after every later handler of the process, and, when the process
\* ends, in the table that initialize restores in the next one, the slot is
\* not live again.
C30_DeletionPermanent ==
  [][\A k \in DOMAIN document_chunks :
       document_chunks[k].deleted
         => LET after == IF last_op' = "restart"
                         THEN Initialize([is_initialized |-> is_initialized',
                                          index |-> index',
                                          document_chunks |-> document_chunks'],
                                         faiss_file', meta_file', TRUE).s.document_chunks
                         ELSE document_chunks'
            IN  k \in DOMAIN after => after[k].deleted]_vars

====
